---- MODULE Spec2Model ----
(***************************************************************************)
(* Model of the lab-automation scripts of the repository:                  *)
(*   - MS2038C spectrum-analyzer capture script (connection handling,      *)
(*     trace repair, noise-floor estimation, presentation);                *)
(*   - N5183B frequency-sweep script;                                      *)
(*   - configure_afg1022 of the AFG1022 configurable script.               *)
(* A number is a record [k, n, d]: the rational n/d, k = "nan" for IEEE     *)
(* NaN, k = "none" for an unbound Python name.  Floats are binary with     *)
(* round-to-nearest, ties-to-even, as Python's; the significand carries    *)
(* PrecisionBits bits in place of the 53 of a double and the exponent is   *)
(* unbounded (no overflow, no subnormals).  What rounding does here to     *)
(* short traces of small integers it does in a double to decimal fractions *)
(* (three times -88.9) and to large magnitudes (1e18 + 10).  Strings that  *)
(* are parsed are sequences of one-character strings.                      *)
(***************************************************************************)
EXTENDS Integers, Sequences, FiniteSets, TLC

VARIABLES
    \* ---- spectrum-analyzer script ----
    pc,               \* position in the script
    step,             \* index of the next I/O statement of the configuration part
    rm_state,         \* resource manager: "open" | "closed"
    inst_state,       \* name inst: "unbound" | "open" | "closed"
    trace_data,       \* list of tokens (each a sequence of characters)
    trace_data_float, \* list of numbers
    threshold, median_power, noise_floor, noise_data,
    printed,          \* value printed as "Estimated Noise Floor"
    plotted_trace,    \* y data handed to plt.plot for the trace, <<>> before
    plotted_floor,    \* y handed to plt.axhline
    presented,        \* which presentation calls were made
    caught,           \* which except clause ran: "none" | "VisaIOError" | "Exception"
    console,          \* set of diagnostic messages printed by handlers
    \* ---- frequency-sweep script ----
    sw_pc,            \* position in the script
    freq,             \* loop variable of the sweep, MHz
    sw_log,           \* what reached the instrument link, in order
    \* ---- configure_afg1022 ----
    afg_pc,           \* position in the function
    afg_args,         \* the arguments of the call
    waveform,         \* local name waveform (upper-cased at line 34)
    afg_log,          \* resource-manager and instrument calls made, in order
    afg_result,       \* "none" | "ValueError" | "Exception" | "returned"
    settings          \* the dict built at lines 69-76, as far as it is built

saVars == <<pc, step, rm_state, inst_state, trace_data, trace_data_float,
            threshold, median_power, noise_floor, noise_data, printed,
            plotted_trace, plotted_floor, presented, caught, console>>

swVars == <<sw_pc, freq, sw_log>>

afgVars == <<afg_pc, afg_args, waveform, afg_log, afg_result, settings>>

vars == <<saVars, swVars, afgVars>>

----------------------------------------------------------------------------
\* Bounds of the model

MaxLen == 5

\* bits of the significand of a float
PrecisionBits == 4

----------------------------------------------------------------------------
\* Numbers

NoneV == [k |-> "none", n |-> 0, d |-> 1]
NaN == [k |-> "nan", n |-> 0, d |-> 1]

Abs(x) == IF x < 0 THEN -x ELSE x

RECURSIVE Gcd(_, _)
Gcd(a, b) == IF b = 0 THEN a ELSE Gcd(b, a % b)

\* the rational p/q (q > 0) in lowest terms
Reduce(p, q, g) == [k |-> "num", n |-> p \div g, d |-> q \div g]

Rat(p, q) == Reduce(p, q, Gcd(Abs(p), q))

Num(i) == [k |-> "num", n |-> i, d |-> 1]

IsNaN(x) == x.k = "nan"

RECURSIVE Pow2(_)
Pow2(e) == IF e = 0 THEN 1 ELSE 2 * Pow2(e - 1)

\* a/b (a >= 0, b > 0) to the nearest integer, ties to the even one
RoundHalfEven(a, b) ==
    IF 2 * (a % b) < b THEN a \div b
    ELSE IF 2 * (a % b) > b THEN (a \div b) + 1
    ELSE IF (a \div b) % 2 = 0 THEN a \div b ELSE (a \div b) + 1

\* a/b (a > 0, b > 0) rounded to PrecisionBits significant bits: scale by
\* powers of two until the quotient has that many bits, round it, scale back
\* the number x times p/q (q > 0)
Scaled(x, p, q) == Rat(x.n * p, x.d * q)

\* a significand m has PrecisionBits bits: MinSignificand <= m < MaxSignificand
MinSignificand == Pow2(PrecisionBits - 1)

MaxSignificand == Pow2(PrecisionBits)

RECURSIVE RoundPos(_, _)
RoundPos(a, b) ==
    IF a < MinSignificand * b
    THEN Scaled(RoundPos(2 * a, b), 1, 2)
    ELSE IF a >= MaxSignificand * b
         THEN Scaled(RoundPos(a, 2 * b), 2, 1)
         ELSE Rat(RoundHalfEven(a, b), 1)

\* the float nearest to the number x
Fl(x) ==
    IF IsNaN(x) THEN NaN
    ELSE IF x.n = 0 THEN Num(0)
    ELSE IF x.n > 0 THEN RoundPos(x.n, x.d)
    ELSE Scaled(RoundPos(-x.n, x.d), -1, 1)

\* float addition: NaN propagates, the sum is rounded
Add(x, y) ==
    IF IsNaN(x) \/ IsNaN(y) THEN NaN
    ELSE Fl(Rat(x.n * y.d + y.n * x.d, x.d * y.d))

\* IEEE x < y: FALSE as soon as one side is NaN
Lt(x, y) ==
    /\ ~IsNaN(x)
    /\ ~IsNaN(y)
    /\ x.n * y.d < y.n * x.d

Half(x) == IF IsNaN(x) THEN NaN ELSE Fl(Rat(x.n, 2 * x.d))

----------------------------------------------------------------------------
\* Python float() on a token, restricted to the alphabet of the model:
\* an optional sign followed by decimal digits is the float nearest to that
\* integer, the word nan (optionally signed) is NaN, anything else raises
\* ValueError.

Digits == <<"0", "1", "2", "3", "4", "5", "6", "7", "8", "9">>

\* the value of each digit character
DigitTable == [c \in {Digits[i] : i \in 1..Len(Digits)} |->
                  (CHOOSE i \in 1..Len(Digits) : Digits[i] = c) - 1]

IsDigit(c) == c \in DOMAIN DigitTable

DigitVal(c) == DigitTable[c]

RECURSIVE DecVal(_)
DecVal(s) ==
    IF s = <<>> THEN 0
    ELSE DecVal(SubSeq(s, 1, Len(s) - 1)) * 10 + DigitVal(s[Len(s)])

AllDigits(s) == Len(s) > 0 /\ \A i \in 1..Len(s) : IsDigit(s[i])

Unsigned(s) == IF s # <<>> /\ s[1] \in {"-", "+"} THEN Tail(s) ELSE s

\* float() of the characters after the sign
FloatOf(body, neg) ==
    IF body = <<"n", "a", "n">> THEN [ok |-> TRUE, val |-> NaN]
    ELSE IF AllDigits(body)
         THEN [ok |-> TRUE,
               val |-> Fl(Num(IF neg THEN -DecVal(body) ELSE DecVal(body)))]
         ELSE [ok |-> FALSE, val |-> NoneV]

Float(tok) == FloatOf(Unsigned(tok), tok # <<>> /\ tok[1] = "-")

----------------------------------------------------------------------------
\* numpy reductions

HasNaN(a) == \E i \in 1..Len(a) : IsNaN(a[i])

RECURSIVE Insert(_, _)
Insert(x, sorted) ==
    IF sorted = <<>> THEN <<x>>
    ELSE IF Lt(sorted[1], x) THEN <<sorted[1]>> \o Insert(x, Tail(sorted))
         ELSE <<x>> \o sorted

RECURSIVE Sorted(_)
Sorted(a) == IF a = <<>> THEN <<>> ELSE Insert(a[1], Sorted(Tail(a)))

\* np.add.reduce of fewer than 8 entries: added left to right
RECURSIVE Sum(_)
Sum(a) ==
    IF a = <<>> THEN Num(0)
    ELSE Add(Sum(SubSeq(a, 1, Len(a) - 1)), a[Len(a)])

\* the middle of a sorted list, the mean of the two middle entries for an even
\* count
Middle(s) ==
    IF Len(s) % 2 = 1 THEN s[(Len(s) \div 2) + 1]
    ELSE Half(Add(s[Len(s) \div 2], s[(Len(s) \div 2) + 1]))

\* np.median: NaN (with a RuntimeWarning, no exception) for an empty list, NaN
\* if any entry is NaN, else the middle of the sorted values, the mean of the
\* two middle ones for an even count
np_median(a) ==
    IF Len(a) = 0 \/ HasNaN(a) THEN NaN ELSE Middle(Sorted(a))

\* float division of the float t by the count c
Divided(t, c) == IF IsNaN(t) THEN NaN ELSE Fl(Rat(t.n, t.d * c))

\* np.mean: NaN (with a RuntimeWarning, no exception) for an empty list, else
\* the rounded sum divided by the count, rounded
np_mean(a) == IF Len(a) = 0 THEN NaN ELSE Divided(Sum(a), Len(a))

----------------------------------------------------------------------------
\* The three loops over the trace

\* as CollectPass, but a malformed token counts as 0
RECURSIVE CollectPassZeroFill(_)
CollectPassZeroFill(tokens) ==
    IF tokens = <<>> THEN <<>>
    ELSE LET r == Float(tokens[Len(tokens)])
             before == CollectPassZeroFill(SubSeq(tokens, 1, Len(tokens) - 1))
         IN  IF r.ok THEN Append(before, r.val) ELSE Append(before, Num(0))

\* lines 128-131, r being what float() makes of the token
Collected(before, r) == IF r.ok THEN Append(before, r.val) ELSE before

\* lines 127-131: append what parses, report and skip what does not
RECURSIVE CollectPass(_)
CollectPass(tokens) ==
    IF tokens = <<>> THEN <<>>
    ELSE Collected(CollectPass(SubSeq(tokens, 1, Len(tokens) - 1)),
                   Float(tokens[Len(tokens)]))

\* as SubstitutePass, but a malformed token is skipped
RECURSIVE SubstitutePassDropping(_, _)
SubstitutePassDropping(tokens, fill) ==
    IF tokens = <<>> THEN <<>>
    ELSE LET r == Float(tokens[Len(tokens)])
             before == SubstitutePassDropping(SubSeq(tokens, 1, Len(tokens) - 1), fill)
         IN  IF r.ok THEN Append(before, r.val) ELSE before

\* lines 137-140, r being what float() makes of the token
Substituted(before, r, fill) ==
    IF r.ok THEN Append(before, r.val) ELSE Append(before, fill)

\* lines 136-140: append what parses, append fill for what does not
RECURSIVE SubstitutePass(_, _)
SubstitutePass(tokens, fill) ==
    IF tokens = <<>> THEN <<>>
    ELSE Substituted(SubstitutePass(SubSeq(tokens, 1, Len(tokens) - 1), fill),
                     Float(tokens[Len(tokens)]), fill)

\* as SelectNoise, but with > in place of <
RECURSIVE SelectNoiseAbove(_, _)
SelectNoiseAbove(values, thr) ==
    IF values = <<>> THEN <<>>
    ELSE LET x == values[Len(values)]
             before == SelectNoiseAbove(SubSeq(values, 1, Len(values) - 1), thr)
         IN  IF Lt(thr, x) THEN Append(before, x) ELSE before

\* as SelectNoise, but with <= in place of <
RECURSIVE SelectNoiseInclusive(_, _)
SelectNoiseInclusive(values, thr) ==
    IF values = <<>> THEN <<>>
    ELSE LET x == values[Len(values)]
             before == SelectNoiseInclusive(SubSeq(values, 1, Len(values) - 1), thr)
         IN  IF Lt(x, thr) \/ (~IsNaN(x) /\ x = thr) THEN Append(before, x)
             ELSE before

\* lines 151-153: append the entries below the threshold
RECURSIVE SelectNoise(_, _)
SelectNoise(values, thr) ==
    IF values = <<>> THEN <<>>
    ELSE LET x == values[Len(values)]
             before == SelectNoise(SubSeq(values, 1, Len(values) - 1), thr)
         IN  IF Lt(x, thr) THEN Append(before, x) ELSE before

----------------------------------------------------------------------------
\* Spectrum-analyzer script: the instrument's answer to ':TRACe:DATA? 1'

Tok0 == <<"0">>
TokNeg300 == <<"-", "3", "0", "0">>
Tok10 == <<"1", "0">>
Tok14 == <<"1", "4">>
TokBad == <<"x">>
TokNaN == <<"n", "a", "n">>

TokenSet == {Tok0, Tok10, Tok14, TokNeg300, TokBad, TokNaN}

\* a block header of the six characters the script removes, and a truncated one
HeaderSet == {<<"#", "4", "0", "0", "2", "4">>, <<"#", "0">>}

TokenSeqs == UNION {[1..n -> TokenSet] : n \in 1..MaxLen}

RECURSIVE Join(_)
Join(toks) ==
    IF Len(toks) = 1 THEN toks[1]
    ELSE Join(SubSeq(toks, 1, Len(toks) - 1)) \o <<",">> \o toks[Len(toks)]

\* str.split(','): always at least one piece
RECURSIVE Split(_)
Split(str) ==
    IF str = <<>> THEN << <<>> >>
    ELSE LET c == str[Len(str)]
             before == Split(SubSeq(str, 1, Len(str) - 1))
             n == Len(before)
         IN  IF c = "," THEN Append(before, <<>>)
             ELSE [before EXCEPT ![n] = Append(before[n], c)]

\* s[6:]
DropSix(s) == SubSeq(s, 7, Len(s))

\* lines 116-118
SplitTrace(response) ==
    LET pieces == Split(response)
    IN  [pieces EXCEPT ![1] = DropSix(pieces[1])]

----------------------------------------------------------------------------
\* Spectrum-analyzer script: the statements of lines 29-110 that talk to the
\* instrument.  parses = the answer is converted by float()/int() before the
\* next such statement.

SAScript == <<
    [line |-> 29,  op |-> "open",  parses |-> FALSE],
    [line |-> 35,  op |-> "query", parses |-> FALSE],
    [line |-> 39,  op |-> "write", parses |-> FALSE],
    [line |-> 42,  op |-> "write", parses |-> FALSE],
    [line |-> 43,  op |-> "query", parses |-> TRUE],
    [line |-> 47,  op |-> "write", parses |-> FALSE],
    [line |-> 48,  op |-> "query", parses |-> TRUE],
    [line |-> 52,  op |-> "write", parses |-> FALSE],
    [line |-> 53,  op |-> "query", parses |-> TRUE],
    [line |-> 57,  op |-> "write", parses |-> FALSE],
    [line |-> 58,  op |-> "query", parses |-> TRUE],
    [line |-> 62,  op |-> "write", parses |-> FALSE],
    [line |-> 63,  op |-> "query", parses |-> TRUE],
    [line |-> 70,  op |-> "write", parses |-> FALSE],
    [line |-> 71,  op |-> "write", parses |-> FALSE],
    [line |-> 74,  op |-> "write", parses |-> FALSE],
    [line |-> 75,  op |-> "write", parses |-> FALSE],
    [line |-> 78,  op |-> "write", parses |-> FALSE],
    [line |-> 79,  op |-> "write", parses |-> FALSE],
    [line |-> 83,  op |-> "write", parses |-> FALSE],
    [line |-> 84,  op |-> "query", parses |-> TRUE],
    [line |-> 94,  op |-> "query", parses |-> FALSE],
    [line |-> 95,  op |-> "query", parses |-> TRUE],
    [line |-> 103, op |-> "query", parses |-> TRUE],
    [line |-> 104, op |-> "query", parses |-> TRUE],
    [line |-> 109, op |-> "query", parses |-> TRUE],
    [line |-> 110, op |-> "query", parses |-> TRUE] >>

SAData0 ==
    /\ step = 1
    /\ inst_state = "unbound"
    /\ trace_data = <<>>
    /\ trace_data_float = <<>>
    /\ threshold = NoneV
    /\ median_power = NoneV
    /\ noise_floor = NoneV
    /\ noise_data = <<>>
    /\ printed = NoneV
    /\ plotted_trace = <<>>
    /\ plotted_floor = NoneV
    /\ presented = {}
    /\ caught = "none"
    /\ console = {}

\* line 25 has run: the resource manager exists, nothing else does
SAInit ==
    /\ pc = "io"
    /\ rm_state = "open"
    /\ SAData0

\* the script is not being run
SAIdle ==
    /\ pc = "idle"
    /\ rm_state = "closed"
    /\ SAData0

estVars == <<trace_data, trace_data_float, threshold, median_power,
             noise_floor, noise_data, printed, plotted_trace, plotted_floor,
             presented>>

\* a statement of lines 29-110 completes
IoOk ==
    /\ pc = "io"
    /\ step' = step + 1
    /\ pc' = IF step = Len(SAScript) THEN "query_trace" ELSE "io"
    /\ inst_state' = IF SAScript[step].op = "open" THEN "open" ELSE inst_state
    /\ UNCHANGED <<rm_state, estVars, caught, console>>
    /\ UNCHANGED <<swVars, afgVars>>

\* open_resource, write or query raises VisaIOError; a failed open_resource
\* leaves the name inst unbound
IoVisaError ==
    /\ pc \in {"io", "query_trace"}
    /\ pc' = "except_visa"
    /\ UNCHANGED <<step, rm_state, inst_state, estVars, caught, console>>
    /\ UNCHANGED <<swVars, afgVars>>

\* the answer to a query is not a number: float()/int() raises ValueError
IoValueError ==
    /\ pc = "io"
    /\ SAScript[step].parses
    /\ pc' = "except_general"
    /\ UNCHANGED <<step, rm_state, inst_state, estVars, caught, console>>
    /\ UNCHANGED <<swVars, afgVars>>

\* lines 115-120
QueryTrace ==
    /\ pc = "query_trace"
    /\ \E hdr \in HeaderSet, toks \in TokenSeqs :
          trace_data' = SplitTrace(hdr \o Join(toks))
    /\ pc' = "first_pass"
    /\ UNCHANGED <<step, rm_state, inst_state, trace_data_float, threshold,
                   median_power, noise_floor, noise_data, printed,
                   plotted_trace, plotted_floor, presented, caught, console>>
    /\ UNCHANGED <<swVars, afgVars>>

\* lines 123-131
FirstPass ==
    /\ pc = "first_pass"
    /\ threshold' = Num(10)
    /\ trace_data_float' = CollectPass(trace_data)
    /\ pc' = "first_median"
    /\ UNCHANGED <<step, rm_state, inst_state, trace_data, median_power,
                   noise_floor, noise_data, printed, plotted_trace,
                   plotted_floor, presented, caught, console>>
    /\ UNCHANGED <<swVars, afgVars>>

\* line 133
FirstMedian ==
    /\ pc = "first_median"
    /\ noise_floor' = np_median(trace_data_float)
    /\ pc' = "second_pass"
    /\ UNCHANGED <<step, rm_state, inst_state, trace_data, trace_data_float,
                   threshold, median_power, noise_data, printed, plotted_trace,
                   plotted_floor, presented, caught, console>>
    /\ UNCHANGED <<swVars, afgVars>>

\* lines 134-142
SecondPass ==
    /\ pc = "second_pass"
    /\ trace_data_float' = SubstitutePass(trace_data, noise_floor)
    /\ pc' = "threshold"
    /\ UNCHANGED <<step, rm_state, inst_state, trace_data, threshold,
                   median_power, noise_floor, noise_data, printed,
                   plotted_trace, plotted_floor, presented, caught, console>>
    /\ UNCHANGED <<swVars, afgVars>>

\* lines 146-147
Threshold ==
    /\ pc = "threshold"
    /\ median_power' = np_median(trace_data_float)
    /\ threshold' = Add(median_power', Num(10))
    /\ pc' = "filter"
    /\ UNCHANGED <<step, rm_state, inst_state, trace_data, trace_data_float,
                   noise_floor, noise_data, printed, plotted_trace,
                   plotted_floor, presented, caught, console>>
    /\ UNCHANGED <<swVars, afgVars>>

\* lines 149-153
Filter ==
    /\ pc = "filter"
    /\ noise_data' = SelectNoise(trace_data_float, threshold)
    /\ pc' = "mean"
    /\ UNCHANGED <<step, rm_state, inst_state, trace_data, trace_data_float,
                   threshold, median_power, noise_floor, printed,
                   plotted_trace, plotted_floor, presented, caught, console>>
    /\ UNCHANGED <<swVars, afgVars>>

\* line 155
Mean ==
    /\ pc = "mean"
    /\ noise_floor' = np_mean(noise_data)
    /\ pc' = "print"
    /\ UNCHANGED <<step, rm_state, inst_state, trace_data, trace_data_float,
                   threshold, median_power, noise_data, printed, plotted_trace,
                   plotted_floor, presented, caught, console>>
    /\ UNCHANGED <<swVars, afgVars>>

\* line 156
PrintFloor ==
    /\ pc = "print"
    /\ printed' = noise_floor
    /\ presented' = presented \cup {"print"}
    /\ pc' = "plot"
    /\ UNCHANGED <<step, rm_state, inst_state, trace_data, trace_data_float,
                   threshold, median_power, noise_floor, noise_data,
                   plotted_trace, plotted_floor, caught, console>>
    /\ UNCHANGED <<swVars, afgVars>>

\* lines 158-211
Plot ==
    /\ pc = "plot"
    /\ plotted_trace' = trace_data_float
    /\ plotted_floor' = noise_floor
    /\ presented' = presented \cup {"plot", "axhline"}
    /\ pc' = "finally"
    /\ UNCHANGED <<step, rm_state, inst_state, trace_data, trace_data_float,
                   threshold, median_power, noise_floor, noise_data, printed,
                   caught, console>>
    /\ UNCHANGED <<swVars, afgVars>>

\* inst.query(':SYSTem:ERRor?') inside a handler, lines 218-222 and 225-229:
\* NameError when inst is unbound, else the query answers or raises; the bare
\* except prints a message for every failure
ErrorQueryOutcomes ==
    IF inst_state = "unbound" THEN {"failed"} ELSE {"answered", "failed"}

\* lines 216-222
ExceptVisa ==
    /\ pc = "except_visa"
    /\ caught' = "VisaIOError"
    /\ \E r \in ErrorQueryOutcomes :
          console' = IF r = "failed" THEN console \cup {"unable_to_query"}
                     ELSE console \cup {"system_error_status"}
    /\ pc' = "finally"
    /\ UNCHANGED <<step, rm_state, inst_state, estVars>>
    /\ UNCHANGED <<swVars, afgVars>>

\* lines 223-229
ExceptGeneral ==
    /\ pc = "except_general"
    /\ caught' = "Exception"
    /\ \E r \in ErrorQueryOutcomes :
          console' = IF r = "failed" THEN console \cup {"unable_to_query"}
                     ELSE console \cup {"system_error_status"}
    /\ pc' = "finally"
    /\ UNCHANGED <<step, rm_state, inst_state, estVars>>
    /\ UNCHANGED <<swVars, afgVars>>

\* lines 230-236: inst.close() raises NameError when inst is unbound, and
\* rm.close() is then skipped
Finally ==
    /\ pc = "finally"
    /\ IF inst_state = "unbound"
       THEN /\ console' = console \cup {"error_closing"}
            /\ UNCHANGED <<rm_state, inst_state>>
       ELSE /\ inst_state' = "closed"
            /\ rm_state' = "closed"
            /\ UNCHANGED console
    /\ pc' = "done"
    /\ UNCHANGED <<step, estVars, caught>>
    /\ UNCHANGED <<swVars, afgVars>>

----------------------------------------------------------------------------
\* Frequency-sweep script

start_freq == 800

stop_freq == 900

step_freq == 1

power_level == -10

Cmd(op, cmd, arg) == [op |-> op, cmd |-> cmd, arg |-> arg]

\* as InRange, for range(start_freq, stop_freq, step_freq)
InRangeExclusive(f) == f < stop_freq

\* range(start_freq, stop_freq + 1, step_freq): the loop runs while this holds
InRange(f) == f < stop_freq + 1

\* lines 38-45, in order
LoopBody(f) == <<
    Cmd("write", "FREQ", f),
    Cmd("write", "POW", power_level),
    Cmd("write", "OUTP ON", 0),
    Cmd("query", "FREQ?", 0),
    Cmd("query", "POW?", 0),
    Cmd("query", "OUTP?", 0) >>

\* lines 17-26, in order
Preamble == <<
    Cmd("rm", "ResourceManager", 0),
    Cmd("open", "open_resource", 0),
    Cmd("write", "*RST", 0),
    Cmd("write", "*CLS", 0),
    Cmd("query", "*IDN?", 0) >>

\* lines 51-56, in order
Shutdown == <<
    Cmd("write", "OUTP OFF", 0),
    Cmd("close", "inst.close", 0),
    Cmd("close", "rm.close", 0) >>

SweepIdle ==
    /\ sw_pc = "idle"
    /\ freq = 0
    /\ sw_log = <<>>

SweepInit ==
    /\ sw_pc = <<"preamble", 1>>
    /\ freq = 0
    /\ sw_log = <<>>

\* a statement of lines 17-26 completes; after the last one the for loop
\* takes its first value
PreambleStep ==
    /\ sw_pc[1] = "preamble"
    /\ sw_log' = Append(sw_log, Preamble[sw_pc[2]])
    /\ IF sw_pc[2] < Len(Preamble)
       THEN /\ sw_pc' = <<"preamble", sw_pc[2] + 1>>
            /\ UNCHANGED freq
       ELSE /\ freq' = start_freq
            /\ sw_pc' = IF InRange(start_freq) THEN <<"loop", 1>>
                        ELSE <<"shutdown", 1>>
    /\ UNCHANGED <<saVars, afgVars>>

\* a statement of the loop body completes; after the last one (and the dwell)
\* the loop variable advances
LoopStep ==
    /\ sw_pc[1] = "loop"
    /\ sw_log' = Append(sw_log, LoopBody(freq)[sw_pc[2]])
    /\ IF sw_pc[2] < Len(LoopBody(freq))
       THEN /\ sw_pc' = <<"loop", sw_pc[2] + 1>>
            /\ UNCHANGED freq
       ELSE /\ freq' = freq + step_freq
            /\ sw_pc' = IF InRange(freq + step_freq) THEN <<"loop", 1>>
                        ELSE <<"shutdown", 1>>
    /\ UNCHANGED <<saVars, afgVars>>

\* a statement of lines 51-56 completes
ShutdownStep ==
    /\ sw_pc[1] = "shutdown"
    /\ sw_log' = Append(sw_log, Shutdown[sw_pc[2]])
    /\ sw_pc' = IF sw_pc[2] < Len(Shutdown) THEN <<"shutdown", sw_pc[2] + 1>>
                ELSE <<"done", 0>>
    /\ UNCHANGED <<freq, saVars, afgVars>>

\* the statement raises (VisaIOError, or ValueError from float() at lines
\* 43-44); nothing catches it and the script ends there
SweepRaise ==
    /\ sw_pc[1] \in {"preamble", "loop", "shutdown"}
    /\ sw_pc' = <<"raised", 0>>
    /\ UNCHANGED <<freq, sw_log, saVars, afgVars>>

SweepNext ==
    \/ PreambleStep
    \/ LoopStep
    \/ ShutdownStep
    \/ SweepRaise

----------------------------------------------------------------------------
\* configure_afg1022

\* str.upper() on the letters of the model
Lower == <<"a", "b", "c", "d", "i", "l", "m", "n", "o", "p", "q", "r", "s", "t", "u">>

Upper == <<"A", "B", "C", "D", "I", "L", "M", "N", "O", "P", "Q", "R", "S", "T", "U">>

UpperChar(c) ==
    IF \E i \in 1..Len(Lower) : Lower[i] = c
    THEN Upper[CHOOSE i \in 1..Len(Lower) : Lower[i] = c]
    ELSE c

upper(str) == [i \in 1..Len(str) |-> UpperChar(str[i])]

SIN == <<"S", "I", "N">>
SQU == <<"S", "Q", "U">>
RAMP == <<"R", "A", "M", "P">>
PULS == <<"P", "U", "L", "S">>
NOIS == <<"N", "O", "I", "S">>
DC == <<"D", "C">>
ARB == <<"A", "R", "B">>

valid_waveforms == {SIN, SQU, RAMP, PULS, NOIS, DC, ARB}

\* A frequency is <<whole Hz, millionths of a Hz>>, the second in 0..999999
Hz(h) == <<h, 0>>

MicroHz(u) == <<0, u>>

FreqLt(f, g) == f[1] < g[1] \/ (f[1] = g[1] /\ f[2] < g[2])

\* lines 39-42, the waveforms that have limits
freq_limits(w) ==
    CASE w = SIN  -> <<MicroHz(1), Hz(25000000)>>
      [] w = SQU  -> <<MicroHz(1), Hz(25000000)>>
      [] w = RAMP -> <<MicroHz(1), Hz(500000)>>
      [] w = PULS -> <<MicroHz(1), Hz(12500000)>>
      [] w = ARB  -> <<MicroHz(1), Hz(10000000)>>

\* line 30
ChannelOk(channel) == channel \in {1, 2}

\* line 35
WaveformOk(w) == w \in valid_waveforms

\* line 43
FrequencyOk(w, f) ==
    ~(/\ w \notin {NOIS, DC}
      /\ (FreqLt(f, freq_limits(w)[1]) \/ FreqLt(freq_limits(w)[2], f)))

\* as OutputStateOk, but accepting the lower-case spellings
OutputStateOkAnyCase(state) == state \in {"ON", "OFF", "on", "off"}

\* line 47
OutputStateOk(state) == state \in {"ON", "OFF"}

\* the arguments tried
ChannelInputs == {0, 1, 2, 3}

WaveformInputs ==
    valid_waveforms \cup
    {<<"s", "i", "n">>, <<"R", "a", "m", "p">>, <<"d", "c">>, <<"n", "o", "i", "s">>,
     <<"T", "R", "I">>, <<>>}

FrequencyInputs ==
    {<<-1, 0>>, Hz(0), MicroHz(1), Hz(1000), Hz(100000), Hz(500000),
     <<500000, 1>>, Hz(10000000), Hz(12500000), <<12500000, 1>>,
     Hz(25000000), <<25000000, 1>>}

OutputStateInputs == {"ON", "OFF", "on", "1"}

ArgSet ==
    [channel : ChannelInputs, waveform : WaveformInputs,
     frequency : FrequencyInputs, output_state : OutputStateInputs,
     reset : BOOLEAN]

AfgIdle ==
    /\ afg_pc = <<"idle", 0>>
    /\ afg_args = [channel |-> 1, waveform |-> SIN, frequency |-> Hz(1000),
                   output_state |-> "ON", reset |-> TRUE]
    /\ waveform = SIN
    /\ afg_log = <<>>
    /\ afg_result = "none"
    /\ settings = <<>>

\* the function has been called
AfgInit ==
    /\ afg_pc = <<"check_channel", 0>>
    /\ afg_args \in ArgSet
    /\ waveform = afg_args.waveform
    /\ afg_log = <<>>
    /\ afg_result = "none"
    /\ settings = <<>>

\* raise ValueError out of the function
RaiseValueError ==
    /\ afg_pc' = <<"done", 0>>
    /\ afg_result' = "ValueError"
    /\ UNCHANGED <<afg_args, afg_log, settings>>

\* lines 30-31
CheckChannel ==
    /\ afg_pc = <<"check_channel", 0>>
    /\ IF ChannelOk(afg_args.channel)
       THEN /\ afg_pc' = <<"check_waveform", 0>>
            /\ UNCHANGED <<afg_args, afg_log, afg_result, settings>>
       ELSE RaiseValueError
    /\ UNCHANGED <<waveform, saVars, swVars>>

\* lines 33-36
CheckWaveform ==
    /\ afg_pc = <<"check_waveform", 0>>
    /\ waveform' = upper(waveform)
    /\ IF WaveformOk(waveform')
       THEN /\ afg_pc' = <<"check_frequency", 0>>
            /\ UNCHANGED <<afg_args, afg_log, afg_result, settings>>
       ELSE RaiseValueError
    /\ UNCHANGED <<saVars, swVars>>

\* lines 39-44
CheckFrequency ==
    /\ afg_pc = <<"check_frequency", 0>>
    /\ IF FrequencyOk(waveform, afg_args.frequency)
       THEN /\ afg_pc' = <<"check_output_state", 0>>
            /\ UNCHANGED <<afg_args, afg_log, afg_result, settings>>
       ELSE RaiseValueError
    /\ UNCHANGED <<waveform, saVars, swVars>>

\* lines 47-48
CheckOutputState ==
    /\ afg_pc = <<"check_output_state", 0>>
    /\ IF OutputStateOk(afg_args.output_state)
       THEN /\ afg_pc' = <<"io", 1>>
            /\ UNCHANGED <<afg_args, afg_log, afg_result, settings>>
       ELSE RaiseValueError
    /\ UNCHANGED <<waveform, saVars, swVars>>

HasFrequency(w) == w \notin {NOIS, DC}

Call(op, cmd, key) == [op |-> op, cmd |-> cmd, key |-> key]

\* lines 52-80 for the given arguments: the calls made, in order; key is the
\* settings entry a query fills
AfgCalls(args, w) ==
    << Call("rm", "ResourceManager", ""), Call("open", "open_resource", "") >>
    \o (IF args.reset THEN << Call("write", "*RST", "") >> ELSE <<>>)
    \o << Call("write", "FUNC", "") >>
    \o (IF HasFrequency(w) THEN << Call("write", "FREQ", "") >> ELSE <<>>)
    \o << Call("write", "VOLT", ""), Call("write", "VOLT:OFFS", ""),
          Call("write", "OUTP", ""), Call("query", "FUNC?", "Waveform") >>
    \o (IF HasFrequency(w) THEN << Call("query", "FREQ?", "Frequency") >>
        ELSE << Call("literal", "N/A", "Frequency") >>)
    \o << Call("query", "VOLT?", "Amplitude"),
          Call("query", "VOLT:OFFS?", "Offset"),
          Call("query", "OUTP?", "Output State"),
          Call("query", "SYST:ERR?", "Error Status"),
          Call("close", "inst.close", ""), Call("close", "rm.close", "") >>

\* a statement of lines 52-80 completes; the literal 'N/A' of line 71 is no
\* call; after rm.close() the function returns settings
AfgStep ==
    /\ afg_pc[1] = "io"
    /\ LET calls == AfgCalls(afg_args, waveform)
           c == calls[afg_pc[2]]
       IN  /\ afg_log' = IF c.op = "literal" THEN afg_log ELSE Append(afg_log, c)
           /\ settings' = IF c.key = "" THEN settings
                          ELSE Append(settings,
                                      <<c.key, IF c.op = "literal" THEN c.cmd
                                               ELSE "answer">>)
           /\ IF afg_pc[2] < Len(calls)
              THEN /\ afg_pc' = <<"io", afg_pc[2] + 1>>
                   /\ UNCHANGED afg_result
              ELSE /\ afg_pc' = <<"done", 0>>
                   /\ afg_result' = "returned"
    /\ UNCHANGED <<afg_args, waveform, saVars, swVars>>

\* a call of lines 52-80 raises; lines 84-87 re-raise it as Exception
AfgCallRaises ==
    /\ afg_pc[1] = "io"
    /\ AfgCalls(afg_args, waveform)[afg_pc[2]].op # "literal"
    /\ afg_pc' = <<"done", 0>>
    /\ afg_result' = "Exception"
    /\ UNCHANGED <<afg_args, waveform, afg_log, settings, saVars, swVars>>

AfgNext ==
    \/ CheckChannel
    \/ CheckWaveform
    \/ CheckFrequency
    \/ CheckOutputState
    \/ AfgStep
    \/ AfgCallRaises

----------------------------------------------------------------------------
\* Specifications

Init == SAInit /\ SweepIdle /\ AfgIdle

Next ==
    \/ IoOk
    \/ IoVisaError
    \/ IoValueError
    \/ QueryTrace
    \/ FirstPass
    \/ FirstMedian
    \/ SecondPass
    \/ Threshold
    \/ Filter
    \/ Mean
    \/ PrintFloor
    \/ Plot
    \/ ExceptVisa
    \/ ExceptGeneral
    \/ Finally


Spec == Init /\ [][Next]_vars

InitSweep == SAIdle /\ SweepInit /\ AfgIdle

SpecSweep == InitSweep /\ [][SweepNext]_vars

InitAfg == SAIdle /\ SweepIdle /\ AfgInit

SpecAfg == InitAfg /\ [][AfgNext]_vars

----------------------------------------------------------------------------
\* Stages of the spectrum-analyzer script

\* the try body ran to its end (no except clause ran)
Completed == pc \in {"finally", "done"} /\ caught = "none"

\* the second pass (lines 134-142) has run
Repaired == pc \in {"threshold", "filter", "mean", "print", "plot"} \/ Completed

\* the filter loop (lines 149-153) has run
Filtered == pc \in {"mean", "print", "plot"} \/ Completed

\* line 155 has run
Reduced == pc \in {"print", "plot"} \/ Completed

Parses(tok) == Float(tok).ok

TraceReceived == trace_data # <<>>

NoTokenParses == \A i \in 1..Len(trace_data) : ~Parses(trace_data[i])

\* the values of the tokens that parse, in order
IsValue(r) == r.ok

ValueOf(r) == r.val

\* what float() makes of each token, in order
ParsedTokens == [i \in 1..Len(trace_data) |-> Float(trace_data[i])] \o <<>>

\* p being what float() makes of each token: the values of the tokens that
\* parse, in order
ValidValues(p) ==
    [i \in 1..Len(SelectSeq(p, IsValue)) |-> ValueOf(SelectSeq(p, IsValue)[i])]

\* r is what float() makes of a token: if it is a value, entry i of the cleaned
\* trace is that value
ParsedValueAt(r, i) ==
    r.ok => (i <= Len(trace_data_float) /\ trace_data_float[i] = r.val)

\* p being what float() makes of each token: the cleaned trace is the tokens'
\* values, with fill for the malformed ones
RepairedWith(p, fill) ==
    /\ Len(trace_data_float) = Len(p)
    /\ \A i \in 1..Len(p) :
          trace_data_float[i] = IF p[i].ok THEN p[i].val ELSE fill

\* p being what float() makes of each token: if one of them is a value, the
\* cleaned trace is the tokens' values, with the median of these values for
\* the malformed ones
RepairedWithMedianOfValid(p) ==
    (\E i \in 1..Len(p) : p[i].ok) =>
        RepairedWith(p, np_median(ValidValues(p) \o <<>>))

----------------------------------------------------------------------------
\* Claims

\* C1: once the second pass has run, the cleaned trace has exactly as many
\* entries as the raw token sequence, and every parseable token's value sits
\* at the token's own position (a malformed token is replaced in place, never
\* dropped).
C1_LengthInvariance ==
    Repaired =>
        /\ Len(trace_data_float) = Len(trace_data)
        /\ \A i \in 1..Len(trace_data) :
              ParsedValueAt(Float(trace_data[i]), i)

\* a repaired trace that has a malformed token before a parseable one
C1_Witness ==
    /\ Repaired
    /\ Len(trace_data) >= 3
    /\ \E i, j \in 1..Len(trace_data) :
          i < j /\ ~Parses(trace_data[i]) /\ Parses(trace_data[j])

\* C2: when at least one token parses, entry i of the cleaned trace is the
\* parsed value of token i if it parses, and otherwise the median of the
\* values of the tokens that parse in the original sequence.
C2_RepairWithFirstPassMedian ==
    Repaired => RepairedWithMedianOfValid(ParsedTokens)

\* the example of the specification with other numbers: 0, x, 10, 14 is
\* repaired to 0, 10, 10, 14
C2_Witness ==
    /\ Repaired
    /\ trace_data = <<Tok0, TokBad, Tok10, Tok14>>
    /\ trace_data_float = <<Num(0), Num(10), Num(10), Num(14)>>

\* C3: when no token parses, the estimation stops at the imputation step: it
\* goes no further than the first median, computes no NaN placeholder and
\* puts no NaN into the trace.
C3_AllMalformedFailsAtImputation ==
    (TraceReceived /\ NoTokenParses) =>
        /\ pc \in {"first_pass", "first_median", "except_general", "finally", "done"}
        /\ ~IsNaN(noise_floor)
        /\ ~HasNaN(trace_data_float)
        /\ ~Completed

\* C4: once the reduction step is past, the noise floor is a finite number and
\* the sub-threshold subset it was taken from is not empty.
C4_NoiseFloorNeverNaN ==
    Reduced => (noise_floor.k = "num" /\ noise_data # <<>>)

\* C5: once the filter has run, the threshold is the median of the cleaned
\* trace plus 10 and the subset is exactly the entries strictly below it, in
\* order and with multiplicity; no entry at or above the threshold is in it.
C5_ThresholdingCorrectness ==
    Filtered =>
        LET Below(x) == Lt(x, threshold)
        IN  /\ median_power = np_median(trace_data_float)
            /\ threshold = Add(median_power, Num(10))
            /\ noise_data = SelectSeq(trace_data_float, Below)
            /\ \A i \in 1..Len(noise_data) :
                  noise_data[i] # threshold /\ ~Lt(threshold, noise_data[i])

\* a filtered trace with an entry exactly at the threshold, one above it and
\* four selected entries
C5_Witness ==
    /\ Filtered
    /\ trace_data_float = <<Num(0), Num(0), Num(0), Num(10), Num(14)>>
    /\ threshold = Num(10)
    /\ noise_data = <<Num(0), Num(0), Num(0)>>

\* the sum of the numbers of a, exactly
RECURSIVE ExactSum(_)
ExactSum(a) ==
    IF a = <<>> THEN Num(0)
    ELSE LET t == ExactSum(Tail(a))
         IN  Rat(a[1].n * t.d + t.n * a[1].d, a[1].d * t.d)

IsMeanOf(x, a) ==
    /\ x.k = "num"
    /\ ~HasNaN(a)
    /\ x.n * ExactSum(a).d * Len(a) = ExactSum(a).n * x.d

\* C6: the noise floor that is printed and the one that is drawn are each the
\* arithmetic mean of the sub-threshold subset: value * |subset| = sum(subset).
C6_ReportedFloorIsSubsetMean ==
    /\ ("print" \in presented => IsMeanOf(printed, noise_data))
    /\ ("axhline" \in presented => IsMeanOf(plotted_floor, noise_data))

\* estimation cannot produce a value: no token parses, or nothing is below the
\* threshold
EstimationFailed ==
    \/ TraceReceived /\ NoTokenParses
    \/ Filtered /\ noise_data = <<>>

\* C7: when estimation fails, nothing is printed or plotted and the script
\* ends in an error.
C7_NoPartialResultsOnFailure ==
    EstimationFailed =>
        /\ presented = {}
        /\ printed = NoneV
        /\ plotted_trace = <<>>
        /\ plotted_floor = NoneV
        /\ (pc = "done" => caught # "none")

\* C8: when the script ends, the resource manager is closed and no instrument
\* session is left open.
C8_ConnectionsClosedAtEnd ==
    pc = "done" => (rm_state = "closed" /\ inst_state # "open")

IsPrefix(a, b) == Len(a) <= Len(b) /\ a = SubSeq(b, 1, Len(a))

RECURSIVE ExpectedSteps(_, _)
ExpectedSteps(lo, hi) ==
    IF hi < lo THEN <<>>
    ELSE ExpectedSteps(lo, hi - 1) \o
         << [op |-> "write", cmd |-> "FREQ", arg |-> hi],
            [op |-> "write", cmd |-> "POW", arg |-> -10],
            [op |-> "write", cmd |-> "OUTP ON", arg |-> 0],
            [op |-> "query", cmd |-> "FREQ?", arg |-> 0],
            [op |-> "query", cmd |-> "POW?", arg |-> 0],
            [op |-> "query", cmd |-> "OUTP?", arg |-> 0] >>

ExpectedSweepLog ==
    Preamble \o ExpectedSteps(800, 900) \o
    << [op |-> "write", cmd |-> "OUTP OFF", arg |-> 0],
       [op |-> "close", cmd |-> "inst.close", arg |-> 0],
       [op |-> "close", cmd |-> "rm.close", arg |-> 0] >>

\* C9: what the sweep script has sent is at every moment a prefix of: the
\* preamble, then for 800, 801, ..., 900 MHz in ascending order FREQ, POW -10,
\* OUTP ON and the three queries, then OUTP OFF once, then the two closes; a
\* run that reaches the end has sent exactly that, so nothing follows a close.
C9_SweepOrdering ==
    /\ IsPrefix(sw_log, ExpectedSweepLog)
    /\ sw_pc = <<"done", 0>> => sw_log = ExpectedSweepLog

\* a completed sweep: 101 steps of 6 commands between preamble and shutdown
C9_Witness ==
    /\ sw_pc = <<"done", 0>>
    /\ Len(sw_log) = 5 + 101 * 6 + 3
    /\ sw_log[Len(sw_log) - 2].cmd = "OUTP OFF"

ArgsInvalid ==
    LET w == upper(afg_args.waveform)
        f == afg_args.frequency
    IN  \/ afg_args.channel \notin {1, 2}
        \/ w \notin {SIN, SQU, RAMP, PULS, NOIS, DC, ARB}
        \/ /\ w \in {SIN, SQU, RAMP, PULS, ARB}
           /\ (FreqLt(f, freq_limits(w)[1]) \/ FreqLt(freq_limits(w)[2], f))
        \/ afg_args.output_state \notin {"ON", "OFF"}

AllFinite(a) == a # <<>> /\ \A i \in 1..Len(a) : a[i].k = "num"

\* x <= y for numbers
Le(x, y) == x.k = "num" /\ y.k = "num" /\ ~Lt(y, x)

\* the least entry of a list of numbers
MinOf(a) ==
    CHOOSE x \in {a[i] : i \in 1..Len(a)} : \A j \in 1..Len(a) : Le(x, a[j])

====
